---------------------------- MODULE Spec2Model ----------------------------
(***************************************************************************)
(* Type strings of the cc65 C compiler (src/src/cc65/datatype.c).          *)
(*                                                                         *)
(* A type string is a T_END terminated array of 16 bit tokens.  Array      *)
(* counts and descriptor addresses are stored inline in DECODE_SIZE        *)
(* tokens, 15 bits each, every one carrying the marker bit 0x8000.         *)
(*                                                                         *)
(* The compiler is modelled as built for an LP64 host: int and unsigned    *)
(* are 32 bits wide, long, unsigned long and pointers are 64 bits wide.    *)
(* Values wider than a token are little endian bit vectors (sequences of   *)
(* 0 and 1), so that casts, shifts and products keep their C width.        *)
(***************************************************************************)
EXTENDS Integers, Sequences, FiniteSets, TLC

VARIABLES
    SignedChars,   \* global.h: the default char signedness flag (IS_Get)
    heap,          \* the memory of type strings, name -> tokens: the predefined
                   \* arrays and the xmalloc'ed blocks (<<>> when free)
    allocated,     \* number of blocks xmalloc has handed out so far
    FuncDescs,     \* function descriptors: address -> [Flags, ParamCount]
    Errors,        \* the diagnostics Error () has reported so far
    fault,         \* "none", or the operation whose CHECK / Internal aborted
    op,            \* name of the last operation called
    arg,           \* the argument it was called with
    ret,           \* what it returned (a pointer, a number, a text)
    slots,         \* codec scratch buffer: DECODE_SIZE tokens written by Encode
    encVal,        \* the value last handed to Encode / EncodePtr
    decVal         \* the value last returned by Decode / DecodePtr

vars == <<SignedChars, heap, allocated, FuncDescs, Errors, fault, op, arg, ret,
          slots, encVal, decVal>>

-----------------------------------------------------------------------------
(* Bounds of the model *)

\* number of heap blocks the caller of the module holds at one time
MaxObjs == 2

\* Error() diagnostics counted before the model stops reporting more
MaxErrors == 1

\* number of blocks xmalloc hands out before the model stops allocating
MaxAllocs == 2

-----------------------------------------------------------------------------
(* Host data model (LP64) *)

INT_BITS == 32

LONG_BITS == 64

TYPE_BITS == 16

-----------------------------------------------------------------------------
(* datatype.h: token layout, sizes, payload width *)

T_END == 0

T_TYPE_CHAR == 1

T_TYPE_SHORT == 2

T_TYPE_INT == 3

T_TYPE_LONG == 4

T_TYPE_LONGLONG == 5

T_TYPE_ENUM == 6

T_TYPE_FLOAT == 7

T_TYPE_DOUBLE == 8

T_TYPE_VOID == 9

T_TYPE_STRUCT == 10

T_TYPE_UNION == 11

T_TYPE_ARRAY == 12

T_TYPE_PTR == 13

T_TYPE_FUNC == 14

\* 0x001F
T_MASK_TYPE == 31

T_CLASS_NONE == 0

\* 0x0020
T_CLASS_INT == 32

\* 0x0040
T_CLASS_FLOAT == 64

\* 0x0060
T_CLASS_PTR == 96

\* 0x0080
T_CLASS_STRUCT == 128

\* 0x00A0
T_CLASS_FUNC == 160

\* 0x00E0
T_MASK_CLASS == 224

\* 0x0100
T_SIGN_UNSIGNED == 256

\* 0x0200
T_SIGN_SIGNED == 512

\* 0x0300
T_MASK_SIGN == 768

\* 0x0400
T_SIZE_SHORT == 1024

\* 0x0800
T_SIZE_LONG == 2048

\* 0x0C00
T_SIZE_LONGLONG == 3072

\* 0x1000
T_QUAL_CONST == 4096

\* 0x2000
T_QUAL_VOLATILE == 8192

\* 0x3000
T_MASK_QUAL == 12288

T_SCHAR == T_TYPE_CHAR + T_CLASS_INT + T_SIGN_SIGNED

T_UCHAR == T_TYPE_CHAR + T_CLASS_INT + T_SIGN_UNSIGNED

T_SHORT == T_TYPE_SHORT + T_CLASS_INT + T_SIGN_SIGNED + T_SIZE_SHORT

T_USHORT == T_TYPE_SHORT + T_CLASS_INT + T_SIGN_UNSIGNED + T_SIZE_SHORT

T_INT == T_TYPE_INT + T_CLASS_INT + T_SIGN_SIGNED

T_UINT == T_TYPE_INT + T_CLASS_INT + T_SIGN_UNSIGNED

T_LONG == T_TYPE_LONG + T_CLASS_INT + T_SIGN_SIGNED + T_SIZE_LONG

T_ULONG == T_TYPE_LONG + T_CLASS_INT + T_SIGN_UNSIGNED + T_SIZE_LONG

T_LONGLONG == T_TYPE_LONGLONG + T_CLASS_INT + T_SIGN_SIGNED + T_SIZE_LONGLONG

T_ULONGLONG == T_TYPE_LONGLONG + T_CLASS_INT + T_SIGN_UNSIGNED + T_SIZE_LONGLONG

T_ENUM == T_TYPE_ENUM + T_CLASS_INT + T_SIGN_SIGNED

T_FLOAT == T_TYPE_FLOAT + T_CLASS_FLOAT

T_DOUBLE == T_TYPE_DOUBLE + T_CLASS_FLOAT

T_VOID == T_TYPE_VOID + T_CLASS_NONE

T_STRUCT == T_TYPE_STRUCT + T_CLASS_STRUCT

T_UNION == T_TYPE_UNION + T_CLASS_STRUCT

T_ARRAY == T_TYPE_ARRAY + T_CLASS_PTR

T_PTR == T_TYPE_PTR + T_CLASS_PTR

T_FUNC == T_TYPE_FUNC + T_CLASS_FUNC

SIZEOF_CHAR == 1

SIZEOF_SHORT == 2

SIZEOF_INT == 2

SIZEOF_LONG == 4

SIZEOF_LONGLONG == 8

SIZEOF_FLOAT == 4

SIZEOF_DOUBLE == 4

SIZEOF_PTR == 2

\* token slots of one auxiliary payload
DECODE_SIZE == 5

\* the marker bit Encode sets in every payload slot (0x8000)
ENCODE_MARK == 32768

\* the 15 payload bits of a slot (0x7FFF)
ENCODE_BITS == 32767

\* bits of payload per slot: Val >>= 15, Val <<= 15
ENCODE_SHIFT == 15

-----------------------------------------------------------------------------
(* funcdesc.h: descriptor flags *)

FD_IMPLICIT == 1

FD_EMPTY == 2

FD_VOID_PARAM == 4

FD_VARIADIC == 8

FD_FASTCALL == 16

FD_FAR == 32

FD_NEAR == 64

-----------------------------------------------------------------------------
(* codegen.h: the code generator's operand flags *)

\* 0x0003
CF_CHAR == 3

\* 0x0001
CF_INT == 1

\* 0x0000
CF_LONG == 0

\* 0x0004
CF_FLOAT == 4

\* 0x0010
CF_UNSIGNED == 16

\* 0x0100
CF_FIXARGC == 256

-----------------------------------------------------------------------------
(* C integer arithmetic *)

\* a & b on naturals
RECURSIVE BitAnd(_, _)
BitAnd(a, b) ==
    IF a = 0 \/ b = 0 THEN 0
    ELSE (a % 2) * (b % 2) + 2 * BitAnd(a \div 2, b \div 2)

\* a | b on naturals
BitOr(a, b) == a + b - BitAnd(a, b)

\* a & ~m on 16 bit tokens
BitClear(a, m) == a - BitAnd(a, m)

\* a function on 1..n as the tuple of its values
Tup(f) == SubSeq(f, 1, Len(f))

\* the w bit vector of natural n (n < 2^31), least significant bit first
BV(n, w) == Tup([i \in 1..w |-> IF i > 31 THEN 0 ELSE (n \div (2 ^ (i - 1))) % 2])

\* the all-ones vector: (unsigned long) -1L
BvOnes(w) == Tup([i \in 1..w |-> 1])

\* conversion to an unsigned type of w bits: truncation or zero extension
BvCast(b, w) == Tup([i \in 1..w |-> IF i <= Len(b) THEN b[i] ELSE 0])

\* b >> k, unsigned
BvShr(b, k) == Tup([i \in 1..Len(b) |-> IF i + k <= Len(b) THEN b[i + k] ELSE 0])

\* b << k, the high bits shifted out
BvShl(b, k) == Tup([i \in 1..Len(b) |-> IF i - k >= 1 THEN b[i - k] ELSE 0])

\* a | b
BvOr(a, b) == Tup([i \in 1..Len(a) |-> IF a[i] = 1 \/ b[i] = 1 THEN 1 ELSE 0])

\* a & b
BvAnd(a, b) == Tup([i \in 1..Len(a) |-> IF a[i] = 1 /\ b[i] = 1 THEN 1 ELSE 0])

\* ~a
BvNot(a) == Tup([i \in 1..Len(a) |-> 1 - a[i]])

\* byte k (from 1, least significant first) of a bit vector
BvByte(b, k) ==
    b[8 * k - 7] + 2 * b[8 * k - 6] + 4 * b[8 * k - 5] + 8 * b[8 * k - 4]
    + 16 * b[8 * k - 3] + 32 * b[8 * k - 2] + 64 * b[8 * k - 1] + 128 * b[8 * k]

\* the natural a bit vector denotes, when below 2^31
BvNat(b) ==
    LET c == BvCast(b, 32)
    IN  BvByte(c, 1) + 256 * BvByte(c, 2) + 65536 * BvByte(c, 3)
        + 16777216 * BvByte(c, 4)

BvBytes(b) == Tup([k \in 1..(Len(b) \div 8) |-> BvByte(b, k)])

BytesToBv(D) ==
    Tup([i \in 1..(8 * Len(D)) |->
            (D[((i - 1) \div 8) + 1] \div (2 ^ ((i - 1) % 8))) % 2])

\* the sum of A[i] * B[k + 1 - i] over i in from..k
RECURSIVE MulColumn(_, _, _, _)
MulColumn(A, B, k, from) ==
    IF from > k THEN 0
    ELSE A[from] * B[k + 1 - from] + MulColumn(A, B, k, from + 1)

\* the bytes of A * B from column k on, carry coming in
RECURSIVE MulBytes(_, _, _, _)
MulBytes(A, B, k, carry) ==
    IF k > Len(A) THEN <<>>
    ELSE LET s == MulColumn(A, B, k, 1) + carry
         IN  <<s % 256>> \o MulBytes(A, B, k + 1, s \div 256)

\* a * b modulo 2^Len(a), for two vectors of the same width
BvMul(a, b) == BytesToBv(MulBytes(BvBytes(a), BvBytes(b), 1, 0))

\* the sign of a two's complement value
BvNegative(b) == b[Len(b)] = 1

BvIsZero(b) == \A i \in 1..Len(b) : b[i] = 0

\* the 64 bit value whose 16 bit words, least significant first, are ws
RECURSIVE BvWords(_)
BvWords(ws) ==
    IF ws = <<>> THEN <<>> ELSE BV(Head(ws), TYPE_BITS) \o BvWords(Tail(ws))


-----------------------------------------------------------------------------
(* The two's complement int of C (32 bits) *)

IntToBv(n) == IF n >= 0 THEN BV(n, INT_BITS) ELSE BvNot(BV(-n - 1, INT_BITS))

BvToInt(b) == IF BvNegative(b) THEN -BvNat(BvNot(b)) - 1 ELSE BvNat(b)

\* an unsigned value of C, from a natural below 2^31
U(n) == BV(n, INT_BITS)

\* an unsigned long value of C, from a natural below 2^31
UL(n) == BV(n, LONG_BITS)

-----------------------------------------------------------------------------
(* Auxiliary-data codec.  A type string is handled as the sequence of the  *)
(* tokens from the pointer on: T[i + 1] is the C expression T[i].          *)

\* (type) Val: the low 16 bits
CastType(Val) == BvNat(BvCast(Val, TYPE_BITS))

RECURSIVE EncodeFrom(_, _)
EncodeFrom(Val, I) ==
    IF I >= DECODE_SIZE THEN <<>>
    ELSE <<BitOr(CastType(Val), ENCODE_MARK)>>
             \o EncodeFrom(BvShr(Val, ENCODE_SHIFT), I + 1)

\* a codec that leaves the marker bit out of its slots
EncodeNoMark(Val) ==
    Tup([I \in 1..DECODE_SIZE |->
            BitAnd(CastType(BvShr(Val, ENCODE_SHIFT * (I - 1))), ENCODE_BITS)])

\* Encode (Type, Val): the DECODE_SIZE tokens written to Type[0..]
Encode(Val) == EncodeFrom(Val, 0)

\* EncodePtr (Type, P): P is the address, an unsigned long
EncodePtr(P) == Encode(P)

RECURSIVE DecodeFrom(_, _, _)
DecodeFrom(Type, I, Val) ==
    IF I < 0 THEN Val
    ELSE DecodeFrom(Type, I - 1,
                    BvOr(BvShl(Val, ENCODE_SHIFT),
                         BV(BitAnd(Type[I + 1], ENCODE_BITS), LONG_BITS)))

\* a decoder that reads the slots least significant last
DecodeReversed(Type) ==
    DecodeFrom(Tup([I \in 1..DECODE_SIZE |-> Type[DECODE_SIZE + 1 - I]]),
               DECODE_SIZE - 1, UL(0))

\* Decode (Type): the unsigned long read back from Type[0..DECODE_SIZE-1]
Decode(Type) == DecodeFrom(Type, DECODE_SIZE - 1, UL(0))

DecodePtr(Type) == Decode(Type)

\* T + n: the type string n tokens further on
Skip(T, n) == SubSeq(T, n + 1, Len(T))

-----------------------------------------------------------------------------
(* Token algebra (macros of datatype.h) *)

UnqualifiedType(t) == BitClear(t, T_MASK_QUAL)

GetType(T) == BitAnd(T[1], T_MASK_TYPE)

GetClass(T) == BitAnd(T[1], T_MASK_CLASS)

IsTypeArray(T) == GetType(T) = T_TYPE_ARRAY

IsTypeFunc(T) == GetType(T) = T_TYPE_FUNC

IsClassInt(T) == GetClass(T) = T_CLASS_INT

IsClassFloat(T) == GetClass(T) = T_CLASS_FLOAT

IsClassPtr(T) == GetClass(T) = T_CLASS_PTR

IsClassStruct(T) == GetClass(T) = T_CLASS_STRUCT

IsSignUnsigned(T) == BitAnd(T[1], T_MASK_SIGN) = T_SIGN_UNSIGNED

HasEncode(T) == IsClassStruct(T) \/ IsTypeArray(T) \/ IsTypeFunc(T)

-----------------------------------------------------------------------------
(* Length, copy, construction *)

\* the scan of TypeLen from index i on; -1 when it leaves the block without
\* meeting T_END (the C code then reads memory it does not own)
RECURSIVE TypeLenFrom(_, _)
TypeLenFrom(T, i) ==
    IF i > Len(T) THEN -1
    ELSE IF T[i] = T_END THEN i - 1
    ELSE TypeLenFrom(T, i + 1)

TypeLen(T) == TypeLenFrom(T, 1)

\* TypeCpy (Dest, Src): the tokens stored to Dest, the terminator included
RECURSIVE TypeCpy(_)
TypeCpy(Src) ==
    IF Src = <<>> THEN <<>>
    ELSE IF Head(Src) = 0 THEN <<Head(Src)>>
    ELSE <<Head(Src)>> \o TypeCpy(Tail(Src))

\* TypeCat (Dest, Src): Dest's block afterwards; the copy overwrites Dest
\* from its terminator on
TypeCat(Dest, Src) ==
    LET n    == TypeLen(Dest)
        copy == TypeCpy(Src)
    IN  Tup([i \in 1..Len(Dest) |->
                IF i > n /\ i <= n + Len(copy) THEN copy[i - n] ELSE Dest[i]])

\* TypeDup (T): the new block, (TypeLen (T) + 1) tokens copied by memcpy
TypeDup(T) == SubSeq(T, 1, TypeLen(T) + 1)

\* GetDefaultChar ()
GetDefaultChar(flag) == IF flag # 0 THEN T_SCHAR ELSE T_UCHAR

\* GetCharArrayType (Len): the new block; Length is an unsigned
GetCharArrayType(flag, Length) ==
    <<T_ARRAY>> \o Encode(BvCast(Length, LONG_BITS))
                \o <<GetDefaultChar(flag), T_END>>

\* the type string part of GetImplicitFuncType: F is the descriptor's address
ImplicitFuncString(F) == <<T_FUNC>> \o EncodePtr(F) \o <<T_INT, T_END>>

\* a PointerTo that forgets the terminator
PointerToUnterminated(T) == <<T_PTR>> \o SubSeq(T, 1, TypeLen(T))

\* PointerTo (T): the new block
PointerTo(T) == <<T_PTR>> \o SubSeq(T, 1, TypeLen(T) + 1)


-----------------------------------------------------------------------------
(* The symbol table, an external collaborator: struct and union entries    *)
(* and the descriptors of declared functions, each known by its address.   *)

\* 0x00005555555592A0
ADDR_STRUCT_S == BvWords(<<37536, 21845, 21845, 0>>)

\* 0x00005555555592E0
ADDR_UNION_U == BvWords(<<37600, 21845, 21845, 0>>)

\* 0x0000555555559320
ADDR_STRUCT_FWD == BvWords(<<37664, 21845, 21845, 0>>)

\* SymEntry: Name and V.S.Size (a struct declared but not defined has size 0)
SymEntries ==
    (ADDR_STRUCT_S :> [Name |-> "S", Size |-> U(6)])
    @@ (ADDR_UNION_U :> [Name |-> "U", Size |-> U(4)])
    @@ (ADDR_STRUCT_FWD :> [Name |-> "Fwd", Size |-> U(0)])

\* 0x00007FFFF7A01010: descriptor of   int __fastcall__ f (int, register unsigned char*)
ADDR_FUNC_FIXED == BvWords(<<4112, 63392, 32767, 0>>)

\* 0x00007FFFF7A01050: descriptor of   int g (int, ...)
ADDR_FUNC_VARIADIC == BvWords(<<4176, 63392, 32767, 0>>)

\* addresses NewFuncDesc hands out: 0x00005555555A0010, 0xFFFF800000010040
NewDescAddrs == <<BvWords(<<16, 21850, 21845, 0>>), BvWords(<<64, 1, 32768, 65535>>)>>

\* the descriptors the symbol table holds before the module is called
DeclaredFuncDescs ==
    (ADDR_FUNC_FIXED :>
        [Flags |-> FD_FASTCALL, ParamCount |-> 2,
         Params |-> <<[Type |-> <<T_INT, T_END>>, Reg |-> FALSE],
                      [Type |-> <<T_PTR, T_UCHAR, T_END>>, Reg |-> TRUE]>>])
    @@ (ADDR_FUNC_VARIADIC :>
        [Flags |-> FD_VARIADIC, ParamCount |-> 1,
         Params |-> <<[Type |-> <<T_INT, T_END>>, Reg |-> FALSE]>>])

\* NewFuncDesc (): the first address not in use
NewFuncDesc(descs) ==
    NewDescAddrs[CHOOSE i \in 1..Len(NewDescAddrs) :
                    /\ NewDescAddrs[i] \notin DOMAIN descs
                    /\ \A j \in 1..(i - 1) : NewDescAddrs[j] \in DOMAIN descs]

-----------------------------------------------------------------------------
(* Introspection.  An operation that can abort gives [fault, val]: fault   *)
(* is TRUE when a CHECK failed or Internal was called, val is the result.  *)

Ok(v) == [fault |-> FALSE, val |-> v]

Abort(why) == [fault |-> TRUE, val |-> why]

\* GetElementCount (T): (unsigned) Decode (T+1), returned as a long
GetElementCount(T) ==
    IF ~IsTypeArray(T) THEN Abort("GetElementCount")
    ELSE Ok(BvCast(BvCast(Decode(Skip(T, 1)), INT_BITS), LONG_BITS))

\* GetElementType (T): the offset added to T
GetElementType(T) ==
    IF ~IsTypeArray(T) THEN Abort("GetElementType")
    ELSE Ok(DECODE_SIZE + 1)

\* SizeOf (T): an unsigned.  The product of an array is computed in long and
\* converted to unsigned on return.
RECURSIVE SizeOf(_)
SizeOf(T) ==
    LET t == UnqualifiedType(T[1])
    IN  CASE t = T_VOID -> Ok(U(0))
          [] t \in {T_SCHAR, T_UCHAR} -> Ok(U(SIZEOF_CHAR))
          [] t \in {T_SHORT, T_USHORT} -> Ok(U(SIZEOF_SHORT))
          [] t \in {T_INT, T_UINT} -> Ok(U(SIZEOF_INT))
          [] t \in {T_PTR, T_FUNC} -> Ok(U(SIZEOF_PTR))
          [] t \in {T_LONG, T_ULONG} -> Ok(U(SIZEOF_LONG))
          [] t \in {T_LONGLONG, T_ULONGLONG} -> Ok(U(SIZEOF_LONGLONG))
          [] t = T_ENUM -> Ok(U(SIZEOF_INT))
          [] t = T_FLOAT -> Ok(U(SIZEOF_FLOAT))
          [] t = T_DOUBLE -> Ok(U(SIZEOF_DOUBLE))
          [] t \in {T_STRUCT, T_UNION} -> Ok(SymEntries[DecodePtr(Skip(T, 1))].Size)
          [] t = T_ARRAY ->
                LET ElementCount == GetElementCount(T).val
                    Element      == SizeOf(Skip(T, DECODE_SIZE + 1))
                IN  IF BvNegative(ElementCount) THEN Ok(U(0))
                    ELSE IF Element.fault THEN Element
                    ELSE Ok(BvCast(BvMul(ElementCount,
                                         BvCast(Element.val, LONG_BITS)),
                                   INT_BITS))
          [] OTHER -> Abort("SizeOf")

\* whether SizeOf (T) multiplies two longs whose product leaves the range of
\* long, which C leaves undefined
RECURSIVE SizeOfOverflows(_)
SizeOfOverflows(T) ==
    /\ UnqualifiedType(T[1]) = T_ARRAY
    /\ LET Element == SizeOf(Skip(T, DECODE_SIZE + 1))
       IN  \/ SizeOfOverflows(Skip(T, DECODE_SIZE + 1))
           \/ /\ ~Element.fault
              /\ BvNegative(BvMul(GetElementCount(T).val,
                                  BvCast(Element.val, LONG_BITS)))

\* PSizeOf (T)
PSizeOf(T) ==
    IF GetClass(T) # T_CLASS_PTR THEN Abort("PSizeOf")
    ELSE IF IsTypeArray(T) THEN SizeOf(Skip(T, DECODE_SIZE + 1))
    ELSE SizeOf(Skip(T, 1))

\* the Error () fallback of the checked sizes: [fault, val, errs]
Checked(Size) ==
    IF Size.fault THEN [fault |-> TRUE, val |-> Size.val, errs |-> 0]
    ELSE IF BvIsZero(Size.val)
    THEN [fault |-> FALSE, val |-> U(SIZEOF_CHAR), errs |-> 1]
    ELSE [fault |-> FALSE, val |-> Size.val, errs |-> 0]

\* CheckedSizeOf (T)
CheckedSizeOf(T) == Checked(SizeOf(T))

\* CheckedPSizeOf (T)
CheckedPSizeOf(T) == Checked(PSizeOf(T))

\* Indirect (T): the offset added to T
Indirect(T) ==
    IF GetClass(T) # T_CLASS_PTR THEN Abort("Indirect")
    ELSE IF IsTypeArray(T) THEN Ok(DECODE_SIZE + 1)
    ELSE Ok(1)

\* an ArrayToPtr that keeps the payload in the pointee
ArrayToPtrKeepPayload(T) ==
    IF BitAnd(T[1], T_MASK_TYPE) # T_TYPE_ARRAY THEN Abort("ArrayToPtr")
    ELSE Ok(PointerTo(Skip(T, 1)))

\* ArrayToPtr (T): the new block
ArrayToPtr(T) ==
    IF BitAnd(T[1], T_MASK_TYPE) # T_TYPE_ARRAY THEN Abort("ArrayToPtr")
    ELSE Ok(PointerTo(Skip(T, DECODE_SIZE + 1)))

\* GetQualifier (T)
GetQualifier(T) ==
    LET E == IF IsTypeArray(T) THEN Skip(T, DECODE_SIZE + 1) ELSE T
    IN  BitAnd(E[1], T_QUAL_CONST)

IsQualConst(T) == BitAnd(GetQualifier(T), T_QUAL_CONST) # 0

IsQualVolatile(T) == BitAnd(GetQualifier(T), T_QUAL_VOLATILE) # 0

\* the offset GetFuncDesc and GetFuncReturn add for a pointer to function
FuncSkip(T) == IF UnqualifiedType(T[1]) = T_PTR THEN 1 ELSE 0

\* a GetFuncDesc that does not look through a pointer
GetFuncDescNoPtr(T) ==
    IF T[1] # T_FUNC THEN Abort("GetFuncDesc") ELSE Ok(DecodePtr(Skip(T, 1)))

\* GetFuncDesc (T): the descriptor's address
GetFuncDesc(T) ==
    IF Skip(T, FuncSkip(T))[1] # T_FUNC THEN Abort("GetFuncDesc")
    ELSE Ok(DecodePtr(Skip(T, FuncSkip(T) + 1)))

\* GetFuncReturn (T): the offset added to T
GetFuncReturn(T) ==
    IF Skip(T, FuncSkip(T))[1] # T_FUNC THEN Abort("GetFuncReturn")
    ELSE Ok(FuncSkip(T) + 1 + DECODE_SIZE)

IsFastCallFunc(T, descs) ==
    IF GetFuncDesc(T).fault THEN Abort("GetFuncDesc")
    ELSE Ok(BitAnd(descs[GetFuncDesc(T).val].Flags, FD_FASTCALL) # 0)

IsVariadicFunc(T, descs) ==
    IF GetFuncDesc(T).fault THEN Abort("GetFuncDesc")
    ELSE Ok(BitAnd(descs[GetFuncDesc(T).val].Flags, FD_VARIADIC) # 0)

\* a SignExtendChar that does not ask for the flag
SignExtendCharAlways(flag, C) ==
    IF ~BvIsZero(BvAnd(IntToBv(C), IntToBv(128)))
    THEN BvToInt(BvOr(IntToBv(C), BvNot(IntToBv(255))))
    ELSE BvToInt(BvAnd(IntToBv(C), IntToBv(255)))

\* SignExtendChar (C), C an int
SignExtendChar(flag, C) ==
    IF flag # 0 /\ ~BvIsZero(BvAnd(IntToBv(C), IntToBv(128)))
    THEN BvToInt(BvOr(IntToBv(C), BvNot(IntToBv(255))))
    ELSE BvToInt(BvAnd(IntToBv(C), IntToBv(255)))


\* a TypeOf with no case for struct and union
TypeOfNoAddress(T, descs) ==
    LET t == UnqualifiedType(T[1])
    IN  CASE t = T_SCHAR -> [val |-> CF_CHAR, errs |-> 0]
          [] t = T_UCHAR -> [val |-> BitOr(CF_CHAR, CF_UNSIGNED), errs |-> 0]
          [] t \in {T_SHORT, T_INT, T_ENUM} -> [val |-> CF_INT, errs |-> 0]
          [] t \in {T_USHORT, T_UINT, T_PTR, T_ARRAY} ->
                [val |-> BitOr(CF_INT, CF_UNSIGNED), errs |-> 0]
          [] t = T_LONG -> [val |-> CF_LONG, errs |-> 0]
          [] t = T_ULONG -> [val |-> BitOr(CF_LONG, CF_UNSIGNED), errs |-> 0]
          [] t \in {T_FLOAT, T_DOUBLE} -> [val |-> CF_FLOAT, errs |-> 0]
          [] t = T_FUNC ->
                [val |-> IF BitAnd(descs[DecodePtr(Skip(T, 1))].Flags, FD_VARIADIC) # 0
                         THEN 0 ELSE CF_FIXARGC,
                 errs |-> 0]
          [] OTHER -> [val |-> CF_INT, errs |-> 1]

\* TypeOf (T): [val, errs], errs the number of calls of Error ("Illegal type")
TypeOf(T, descs) ==
    LET t == UnqualifiedType(T[1])
    IN  CASE t = T_SCHAR -> [val |-> CF_CHAR, errs |-> 0]
          [] t = T_UCHAR -> [val |-> BitOr(CF_CHAR, CF_UNSIGNED), errs |-> 0]
          [] t \in {T_SHORT, T_INT, T_ENUM} -> [val |-> CF_INT, errs |-> 0]
          [] t \in {T_USHORT, T_UINT, T_PTR, T_ARRAY} ->
                [val |-> BitOr(CF_INT, CF_UNSIGNED), errs |-> 0]
          [] t = T_LONG -> [val |-> CF_LONG, errs |-> 0]
          [] t = T_ULONG -> [val |-> BitOr(CF_LONG, CF_UNSIGNED), errs |-> 0]
          [] t \in {T_FLOAT, T_DOUBLE} -> [val |-> CF_FLOAT, errs |-> 0]
          [] t = T_FUNC ->
                [val |-> IF BitAnd(descs[DecodePtr(Skip(T, 1))].Flags, FD_VARIADIC) # 0
                         THEN 0 ELSE CF_FIXARGC,
                 errs |-> 0]
          [] t \in {T_STRUCT, T_UNION} ->
                [val |-> BitOr(CF_INT, CF_UNSIGNED), errs |-> 0]
          [] OTHER -> [val |-> CF_INT, errs |-> 1]

-----------------------------------------------------------------------------
(* Rendering.  The text is what the fprintf calls write to F, in order.    *)

HexDigits == <<"0", "1", "2", "3", "4", "5", "6", "7",
               "8", "9", "A", "B", "C", "D", "E", "F">>

\* "%04X" of a token
Hex4(t) ==
    HexDigits[((t \div 4096) % 16) + 1] \o HexDigits[((t \div 256) % 16) + 1]
    \o HexDigits[((t \div 16) % 16) + 1] \o HexDigits[(t % 16) + 1]

\* the bytes D divided by ten, from byte k down: [q, r]
RECURSIVE DivTen(_, _, _)
DivTen(D, k, r) ==
    IF k < 1 THEN [q |-> <<>>, r |-> r]
    ELSE LET lower == DivTen(D, k - 1, (256 * r + D[k]) % 10)
         IN  [q |-> Append(lower.q, (256 * r + D[k]) \div 10), r |-> lower.r]

\* the decimal digits of the number with bytes D, none for zero
RECURSIVE Digits(_)
Digits(D) ==
    IF \A k \in 1..Len(D) : D[k] = 0 THEN ""
    ELSE Digits(DivTen(D, Len(D), 0).q) \o HexDigits[DivTen(D, Len(D), 0).r + 1]

\* "%lu" of an unsigned long
BvDecimal(b) == IF BvIsZero(b) THEN "0" ELSE Digits(BvBytes(b))

\* PrintTypeComp (F, T, Mask, Name): [T, out]
PrintTypeComp(T, Mask, Name) ==
    IF BitAnd(T, Mask) = Mask
    THEN [T |-> BitClear(T, Mask), out |-> Name \o " "]
    ELSE [T |-> T, out |-> ""]

\* PrintType (F, Type): the text written
RECURSIVE PrintType(_)
PrintType(Type) ==
    IF Type[1] = T_END THEN ""
    ELSE
      LET rest == Skip(Type, 1)
          c1   == PrintTypeComp(Type[1], T_QUAL_CONST, "const")
          c2   == PrintTypeComp(c1.T, T_QUAL_VOLATILE, "volatile")
          c3   == IF /\ BitAnd(c2.T, T_MASK_TYPE) # T_TYPE_INT
                     /\ BitAnd(c2.T, T_MASK_TYPE) # T_TYPE_LONG
                  THEN PrintTypeComp(c2.T, T_SIGN_SIGNED, "signed")
                  ELSE [T |-> c2.T, out |-> ""]
          c4   == PrintTypeComp(c3.T, T_SIGN_UNSIGNED, "unsigned")
          pre  == c1.out \o c2.out \o c3.out \o c4.out
          b    == BitAnd(c4.T, T_MASK_TYPE)
      IN  CASE b = T_TYPE_CHAR -> pre \o "char" \o PrintType(rest)
            [] b = T_TYPE_SHORT -> pre \o "short" \o PrintType(rest)
            [] b = T_TYPE_INT -> pre \o "int" \o PrintType(rest)
            [] b = T_TYPE_LONG -> pre \o "long" \o PrintType(rest)
            [] b = T_TYPE_LONGLONG -> pre \o "long long" \o PrintType(rest)
            [] b = T_TYPE_FLOAT -> pre \o "float" \o PrintType(rest)
            [] b = T_TYPE_DOUBLE -> pre \o "double" \o PrintType(rest)
            [] b = T_TYPE_VOID -> pre \o "void" \o PrintType(rest)
            [] b = T_TYPE_STRUCT ->
                  pre \o "struct " \o SymEntries[DecodePtr(rest)].Name
                      \o PrintType(Skip(rest, DECODE_SIZE))
            [] b = T_TYPE_UNION ->
                  pre \o "union " \o SymEntries[DecodePtr(rest)].Name
                      \o PrintType(Skip(rest, DECODE_SIZE))
            [] b = T_TYPE_ARRAY ->
                  pre \o PrintType(Skip(rest, DECODE_SIZE))
                      \o (IF BvIsZero(Decode(rest)) THEN "[]"
                          ELSE "[" \o BvDecimal(Decode(rest)) \o "]")
            [] b = T_TYPE_PTR -> pre \o PrintType(rest) \o "*"
            [] b = T_TYPE_FUNC ->
                  pre \o "function returning "
                      \o PrintType(Skip(rest, DECODE_SIZE))
            [] OTHER -> pre \o "unknown type: " \o Hex4(c4.T) \o PrintType(rest)

\* the parameter list of PrintFuncSig, from parameter I on
RECURSIVE PrintParams(_, _)
PrintParams(D, I) ==
    IF I >= D.ParamCount THEN ""
    ELSE (IF I > 0 THEN ", " ELSE "")
         \o (IF D.Params[I + 1].Reg THEN "register " ELSE "")
         \o PrintType(D.Params[I + 1].Type)
         \o PrintParams(D, I + 1)

\* a PrintFuncSig that writes PrintType of the whole function type and the
\* variadic marker
PrintFuncSigEllipsis(Name, Type, descs) ==
    IF Skip(Type, FuncSkip(Type))[1] # T_FUNC THEN Abort("GetFuncDesc")
    ELSE Ok(PrintType(Skip(Type, FuncSkip(Type))) \o " " \o Name \o " (...)")

\* PrintFuncSig (F, Name, Type): [fault, val], val the text written
PrintFuncSig(Name, Type, descs) ==
    IF GetFuncDesc(Type).fault THEN Abort("GetFuncDesc")
    ELSE
      LET D == descs[GetFuncDesc(Type).val]
      IN  Ok(PrintType(Skip(Type, GetFuncReturn(Type).val))
             \o (IF BitAnd(D.Flags, FD_NEAR) # 0 THEN " __near__" ELSE "")
             \o (IF BitAnd(D.Flags, FD_FAR) # 0 THEN " __far__" ELSE "")
             \o (IF BitAnd(D.Flags, FD_FASTCALL) # 0 THEN " __fastcall__" ELSE "")
             \o " " \o Name \o " ("
             \o (IF BitAnd(D.Flags, FD_VOID_PARAM) # 0 THEN "void"
                 ELSE PrintParams(D, 0))
             \o ")")


-----------------------------------------------------------------------------
(* Memory.  A pointer is [obj, off]: a block and a token offset into it.   *)

\* the predefined type strings, as the program starts: arrays of two tokens
\* that TypeCpy can write like any other
Statics ==
    [type_uchar  |-> <<T_UCHAR, T_END>>,
     type_int    |-> <<T_INT, T_END>>,
     type_uint   |-> <<T_UINT, T_END>>,
     type_long   |-> <<T_LONG, T_END>>,
     type_ulong  |-> <<T_ULONG, T_END>>,
     type_void   |-> <<T_VOID, T_END>>,
     type_size_t |-> <<T_UINT, T_END>>]

HeapAddrs == 1..MaxObjs

\* the name of heap block o, as the obj of a pointer
HeapName(o) == "heap" \o ToString(o)

Allocated(h) == {o \in HeapAddrs : h[HeapName(o)] # <<>>}

\* xmalloc: the block handed out, the lowest free one
xmalloc(h) ==
    CHOOSE o \in HeapAddrs :
        h[HeapName(o)] = <<>> /\ \A q \in 1..(o - 1) : h[HeapName(q)] # <<>>

HeapFull(h) == Allocated(h) = HeapAddrs

\* the memory with the heap block 1 holding T (<<>>: no block) and the
\* predefined arrays as initialised
StartMemory(T) ==
    [n \in DOMAIN Statics \cup {HeapName(o) : o \in HeapAddrs} |->
        IF n \in DOMAIN Statics THEN Statics[n]
        ELSE IF n = HeapName(1) THEN T ELSE <<>>]

Block(h, o) == h[o]

\* the type string a pointer points to: the tokens from it to the block's end
At(h, p) == Skip(Block(h, p.obj), p.off)

Ptr(o) == [obj |-> o, off |-> 0]

\* the operations that return a pointer to a type string
PointerOps == {"TypeDup", "PointerTo", "ArrayToPtr", "GetCharArrayType",
               "GetImplicitFuncType", "Indirect", "GetElementType",
               "GetFuncReturn", "TypeAlloc", "TypeCpy", "TypeCat"}

\* a token of a block of xmalloc that nothing has been stored to yet: its
\* value is indeterminate (0xEEEE stands for it) and no operation is handed
\* a type string that holds one
Indeterminate == 61166

\* the block B after the tokens copy are stored from offset d on
Stored(B, d, copy) ==
    Tup([i \in 1..Len(B) |->
            IF i > d /\ i <= d + Len(copy) THEN copy[i - d] ELSE B[i]])

\* the copy loop of TypeCpy stays inside Dest's block and stores to no token
\* of Src it has yet to read
Copies(h, Dest, Src) ==
    /\ TypeLen(At(h, Src)) >= 0
    /\ Dest.off + TypeLen(At(h, Src)) + 1 <= Len(Block(h, Dest.obj))
    /\ \/ Dest.obj # Src.obj
       \/ Dest.off <= Src.off
       \/ Dest.off > Src.off + TypeLen(At(h, Src))

\* the type strings a caller can name: its heap blocks, and the pointer the
\* last operation returned
HeapPtrs == {Ptr(HeapName(o)) : o \in Allocated(heap)}
                \cup (IF op \in PointerOps /\ fault = "none" THEN {ret} ELSE {})

\* those of them that point to a type string: tokens up to a T_END
TypeStrings == {p \in HeapPtrs : TypeLen(At(heap, p)) >= 0}

-----------------------------------------------------------------------------
(* The parser, an external collaborator, assembles type strings bottom up  *)
(* with Encode and the tags.                                               *)

\* (unsigned long) UNSPECIFIED, the element count -1L of  T a[]
UNSPECIFIED == BvOnes(LONG_BITS)

ArrayOf(Count, E) == <<T_ARRAY>> \o Encode(Count) \o E

FuncOf(F, R) == <<T_FUNC>> \o EncodePtr(F) \o R

StructOf(tag, Entry) == <<tag>> \o EncodePtr(Entry) \o <<T_END>>

Qualified(q, E) == <<BitOr(E[1], q)>> \o Tail(E)

\* element counts the parser encodes
Counts == {UL(0), UL(5), UNSPECIFIED}

\* 0x0021: char with no sign bits, a tag no switch of the module knows
T_BAD == T_TYPE_CHAR + T_CLASS_INT

BaseTypes ==
    {<<T_INT, T_END>>, <<T_VOID, T_END>>, <<T_BAD, T_END>>,
     <<T_UCHAR + T_QUAL_CONST, T_END>>, <<T_LONG + T_QUAL_VOLATILE, T_END>>,
     StructOf(T_STRUCT, ADDR_STRUCT_S), StructOf(T_UNION, ADDR_UNION_U),
     StructOf(T_STRUCT + T_QUAL_CONST, ADDR_STRUCT_FWD)}

\* what an array may hold: no void, no function, no  T a[][]
IsElement(E) ==
    /\ E[1] # T_VOID
    /\ ~IsTypeFunc(E)
    /\ ~(IsTypeArray(E) /\ Decode(Skip(E, 1)) = UNSPECIFIED)

\* the types nested two declarators deep are built over this one
NestedBases == {<<T_INT, T_END>>}

\* one more declarator around each type of S
Declarators(S) ==
    {PointerTo(E) : E \in S}
    \cup {ArrayOf(n, E) : n \in Counts, E \in {X \in S : IsElement(X)}}
    \cup {Qualified(T_QUAL_CONST, ArrayOf(UL(5), E)) :
             E \in S \cap {<<T_INT, T_END>>, <<T_UCHAR + T_QUAL_CONST, T_END>>}}
    \cup {FuncOf(F, E) : F \in {ADDR_FUNC_FIXED, ADDR_FUNC_VARIADIC},
                         E \in S \cap {<<T_INT, T_END>>, <<T_VOID, T_END>>}}
    \cup {Qualified(T_QUAL_CONST, PointerTo(E)) : E \in {X \in S : IsTypeFunc(X)}}

ParsedTypes ==
    BaseTypes \cup Declarators(BaseTypes) \cup Declarators(Declarators(NestedBases))

-----------------------------------------------------------------------------
(* The operations as steps.  op is the operation called last, arg its      *)
(* argument and ret its value; fault names the CHECK or Internal call that *)
(* ended the run.                                                          *)

Running == fault = "none"

Returns(name, a, v) == op' = name /\ arg' = a /\ ret' = v /\ fault' = fault

\* abort (): nothing returns
Aborts(name, a, why) == op' = name /\ arg' = a /\ ret' = <<>> /\ fault' = why

\* an operation that writes nothing: r is its [fault, val]
Query(name, a, r) ==
    /\ Running
    /\ IF r.fault THEN Aborts(name, a, r.val) ELSE Returns(name, a, r.val)
    /\ UNCHANGED <<SignedChars, heap, allocated, FuncDescs, Errors, slots, encVal, decVal>>

\* an operation that returns T + r.val
View(name, p, r) ==
    Query(name, p,
          IF r.fault THEN r ELSE Ok([obj |-> p.obj, off |-> p.off + r.val]))

\* an operation that returns the new block T
Allocates(name, a, T) ==
    /\ ~HeapFull(heap)
    /\ allocated < MaxAllocs
    /\ allocated' = allocated + 1
    /\ heap' = [heap EXCEPT ![HeapName(xmalloc(heap))] = T]
    /\ Returns(name, a, Ptr(HeapName(xmalloc(heap))))

CallTypeLen(p) == Query("TypeLen", p, Ok(TypeLen(At(heap, p))))

\* TypeAlloc (Len): a block of Len tokens, none of them written
CallTypeAlloc(Length) ==
    /\ Running
    /\ Allocates("TypeAlloc", Length, [i \in 1..Length |-> Indeterminate])
    /\ UNCHANGED <<SignedChars, FuncDescs, Errors, slots, encVal, decVal>>

\* TypeFree (T): T is a block of xmalloc, which xfree takes back
CallTypeFree(p) ==
    /\ Running
    /\ p.off = 0
    /\ p.obj \in {HeapName(o) : o \in Allocated(heap)}
    /\ heap' = [heap EXCEPT ![p.obj] = <<>>]
    /\ Returns("TypeFree", p, <<>>)
    /\ UNCHANGED <<SignedChars, allocated, FuncDescs, Errors, slots, encVal, decVal>>

\* TypeCpy (Dest, Src): Src's tokens, the terminator included, are stored
\* from Dest on, in a heap block or in a predefined array; returns Dest
CallTypeCpy(Dest, Src) ==
    /\ Running
    /\ Copies(heap, Dest, Src)
    /\ heap' = [heap EXCEPT ![Dest.obj] =
                    Stored(@, Dest.off, TypeCpy(At(heap, Src)))]
    /\ Returns("TypeCpy", [Dest |-> Dest, Src |-> Src], Dest)
    /\ UNCHANGED <<SignedChars, allocated, FuncDescs, Errors, slots, encVal, decVal>>

\* TypeCat (Dest, Src): TypeCpy (Dest + TypeLen (Dest), Src); returns Dest
CallTypeCat(Dest, Src) ==
    /\ Running
    /\ TypeLen(At(heap, Dest)) >= 0
    /\ Copies(heap, [obj |-> Dest.obj,
                     off |-> Dest.off + TypeLen(At(heap, Dest))], Src)
    /\ heap' = [heap EXCEPT ![Dest.obj] =
                    SubSeq(@, 1, Dest.off)
                    \o TypeCat(At(heap, Dest), At(heap, Src))]
    /\ Returns("TypeCat", [Dest |-> Dest, Src |-> Src], Dest)
    /\ UNCHANGED <<SignedChars, allocated, FuncDescs, Errors, slots, encVal, decVal>>

CallTypeDup(p) ==
    /\ Running
    /\ Allocates("TypeDup", p, TypeDup(At(heap, p)))
    /\ UNCHANGED <<SignedChars, FuncDescs, Errors, slots, encVal, decVal>>

CallPointerTo(p) ==
    /\ Running
    /\ Allocates("PointerTo", p, PointerTo(At(heap, p)))
    /\ UNCHANGED <<SignedChars, FuncDescs, Errors, slots, encVal, decVal>>

\* an ArrayToPtr that hands out the element type inside T
CallArrayToPtrAliasing(p) ==
    View("ArrayToPtr", p,
         IF ArrayToPtr(At(heap, p)).fault THEN Abort("ArrayToPtr")
         ELSE Ok(DECODE_SIZE + 1))

CallArrayToPtr(p) ==
    /\ Running
    /\ LET r == ArrayToPtr(At(heap, p))
       IN  IF r.fault
           THEN Aborts("ArrayToPtr", p, r.val) /\ UNCHANGED <<heap, allocated>>
           ELSE Allocates("ArrayToPtr", p, r.val)
    /\ UNCHANGED <<SignedChars, FuncDescs, Errors, slots, encVal, decVal>>

CallGetCharArrayType(Length) ==
    /\ Running
    /\ Allocates("GetCharArrayType", Length, GetCharArrayType(SignedChars, Length))
    /\ UNCHANGED <<SignedChars, FuncDescs, Errors, slots, encVal, decVal>>

CallGetImplicitFuncType ==
    /\ Running
    /\ \E i \in 1..Len(NewDescAddrs) : NewDescAddrs[i] \notin DOMAIN FuncDescs
    /\ LET F == NewFuncDesc(FuncDescs)
       IN  /\ FuncDescs' = FuncDescs @@
                 (F :> [Flags |-> BitOr(BitOr(FD_IMPLICIT, FD_EMPTY), FD_VARIADIC),
                        ParamCount |-> 0, Params |-> <<>>])
           /\ Allocates("GetImplicitFuncType", <<>>, ImplicitFuncString(F))
    /\ UNCHANGED <<SignedChars, Errors, slots, encVal, decVal>>

CallSignExtendChar(C) ==
    Query("SignExtendChar", C, Ok(SignExtendChar(SignedChars, C)))

CallIndirect(p) == View("Indirect", p, Indirect(At(heap, p)))

CallGetElementType(p) == View("GetElementType", p, GetElementType(At(heap, p)))

CallGetFuncReturn(p) == View("GetFuncReturn", p, GetFuncReturn(At(heap, p)))

CallGetElementCount(p) == Query("GetElementCount", p, GetElementCount(At(heap, p)))

CallGetFuncDesc(p) == Query("GetFuncDesc", p, GetFuncDesc(At(heap, p)))

CallIsFastCallFunc(p) ==
    Query("IsFastCallFunc", p, IsFastCallFunc(At(heap, p), FuncDescs))

CallIsVariadicFunc(p) ==
    Query("IsVariadicFunc", p, IsVariadicFunc(At(heap, p), FuncDescs))

CallSizeOf(p) == Query("SizeOf", p, SizeOf(At(heap, p)))

CallPSizeOf(p) == Query("PSizeOf", p, PSizeOf(At(heap, p)))

CallIsQualConst(p) == Query("IsQualConst", p, Ok(IsQualConst(At(heap, p))))

CallIsQualVolatile(p) == Query("IsQualVolatile", p, Ok(IsQualVolatile(At(heap, p))))

CallPrintType(p) == Query("PrintType", p, Ok(PrintType(At(heap, p))))

CallPrintFuncSig(Name, p) ==
    Query("PrintFuncSig", p, PrintFuncSig(Name, At(heap, p), FuncDescs))

\* a checked size: r is its [fault, val, errs]
CheckedCall(name, a, r) ==
    /\ Running
    /\ Len(Errors) + r.errs <= MaxErrors
    /\ IF r.fault THEN Aborts(name, a, r.val) ELSE Returns(name, a, r.val)
    /\ Errors' = IF r.errs = 1 THEN Append(Errors, "Size of data type is unknown")
                 ELSE Errors
    /\ UNCHANGED <<SignedChars, heap, allocated, FuncDescs, slots, encVal, decVal>>

CallCheckedSizeOf(p) == CheckedCall("CheckedSizeOf", p, CheckedSizeOf(At(heap, p)))

CallCheckedPSizeOf(p) == CheckedCall("CheckedPSizeOf", p, CheckedPSizeOf(At(heap, p)))

\* TypeOf (T): Error () records the message and returns
CallTypeOf(p) ==
    /\ Running
    /\ LET r == TypeOf(At(heap, p), FuncDescs)
       IN  /\ Len(Errors) + r.errs <= MaxErrors
           /\ Errors' = IF r.errs = 1 THEN Append(Errors, "Illegal type")
                         ELSE Errors
           /\ Returns("TypeOf", p, r.val)
    /\ UNCHANGED <<SignedChars, heap, allocated, FuncDescs, slots, encVal, decVal>>

-----------------------------------------------------------------------------
(* The payload codec on its own: one payload region, written and read.     *)

CopyEncode(Source) == SubSeq(Source, 1, DECODE_SIZE)

\* values handed to Encode: around every power of two below 2^31, and some
\* that need all 64 bits
CodecVals ==
    {UL(2^j) : j \in 0..30} \cup {UL(2^j - 1) : j \in 0..30}
    \cup {UL(2147483647), UNSPECIFIED, BvShl(UL(1), LONG_BITS - 1),
          BvShl(UNSPECIFIED, ENCODE_SHIFT), BvShr(UNSPECIFIED, 1)}

\* addresses handed to EncodePtr
CodecPtrs ==
    {UL(0), ADDR_STRUCT_S, ADDR_UNION_U, ADDR_STRUCT_FWD, ADDR_FUNC_FIXED,
     ADDR_FUNC_VARIADIC, NewDescAddrs[1], NewDescAddrs[2]}

CodecStep(name, a, s, e, d) ==
    /\ Running
    /\ slots' = s /\ encVal' = e /\ decVal' = d
    /\ Returns(name, a, d)
    /\ UNCHANGED <<SignedChars, heap, allocated, FuncDescs, Errors>>

CallEncode(Val) == CodecStep("Encode", Val, Encode(Val), Val, <<>>)

CallEncodePtr(P) == CodecStep("EncodePtr", P, EncodePtr(P), P, <<>>)

CallDecode == slots # <<>> /\ CodecStep("Decode", <<>>, slots, encVal, Decode(slots))

CallDecodePtr ==
    slots # <<>> /\ CodecStep("DecodePtr", <<>>, slots, encVal, DecodePtr(slots))

CallCopyEncode ==
    slots # <<>> /\ CodecStep("CopyEncode", <<>>, CopyEncode(slots), encVal, <<>>)

-----------------------------------------------------------------------------
(* Specifications *)

\* characters handed to SignExtendChar
Chars == {65, 128, 384}

\* lengths handed to GetCharArrayType
Lengths == {U(0), U(5), BvOnes(INT_BITS)}

\* the predefined type strings callers pass around in the construction runs
CalleeStatics == {Ptr("type_int"), Ptr("type_long")}

\* block lengths handed to TypeAlloc in the construction runs
AllocLens == {3}

\* the type strings the construction runs work on
Sources == TypeStrings \cup CalleeStatics

\* the blocks of TypeAlloc the caller has yet to fill
Unwritten == {p \in HeapPtrs : At(heap, p)[1] = Indeterminate}

InitCommon ==
    /\ FuncDescs = DeclaredFuncDescs
    /\ Errors = <<>>
    /\ fault = "none"
    /\ op = "none"
    /\ arg = <<>>
    /\ ret = <<>>
    /\ slots = <<>>
    /\ encVal = <<>>
    /\ decVal = <<>>

\* after startup, chars unsigned (the default): no type string is allocated
Init ==
    /\ SignedChars = 0
    /\ heap = StartMemory(<<>>)
    /\ allocated = 0
    /\ InitCommon

\* construction: type strings built with the module's own constructors
\* construction and storage: type strings built with the module's own
\* constructors, copied, appended to and released
Next ==
    \/ \E p \in Sources : CallTypeDup(p)
    \/ \E p \in Sources : CallPointerTo(p)
    \/ \E p \in TypeStrings : CallArrayToPtr(p)
    \/ \E n \in Lengths : CallGetCharArrayType(n)
    \/ CallGetImplicitFuncType
    \/ \E p \in TypeStrings : CallTypeLen(p)
    \/ \E p \in TypeStrings : CallIndirect(p)
    \/ \E n \in AllocLens : CallTypeAlloc(n)
    \/ \E p \in HeapPtrs : CallTypeFree(p)
    \/ \E Dest \in Unwritten, Src \in Sources : CallTypeCpy(Dest, Src)
    \/ \E Dest \in TypeStrings, Src \in CalleeStatics : CallTypeCat(Dest, Src)

Spec == Init /\ [][Next]_vars

InitCodec ==
    /\ SignedChars = 0
    /\ heap = StartMemory(<<>>)
    /\ allocated = 0
    /\ InitCommon

NextCodec ==
    \/ \E Val \in CodecVals : CallEncode(Val)
    \/ \E P \in CodecPtrs : CallEncodePtr(P)
    \/ CallDecode
    \/ CallDecodePtr
    \/ CallCopyEncode

SpecCodec == InitCodec /\ [][NextCodec]_vars

\* a translation unit under way: the parser has built one type
InitParsed ==
    /\ SignedChars = 0
    /\ \E T \in ParsedTypes : heap = StartMemory(T)
    /\ allocated = 1
    /\ InitCommon

NextParsed ==
    \/ \E p \in HeapPtrs : CallArrayToPtr(p)
    \/ \E p \in HeapPtrs : CallIndirect(p)
    \/ \E p \in HeapPtrs : CallGetElementType(p)
    \/ \E p \in HeapPtrs : CallGetFuncReturn(p)
    \/ \E p \in HeapPtrs : CallGetElementCount(p)
    \/ \E p \in HeapPtrs : CallGetFuncDesc(p)
    \/ \E p \in HeapPtrs : CallIsFastCallFunc(p)
    \/ \E p \in HeapPtrs : CallIsVariadicFunc(p)
    \/ \E p \in HeapPtrs : CallSizeOf(p)
    \/ \E p \in HeapPtrs : CallPSizeOf(p)
    \/ \E p \in HeapPtrs : CallCheckedSizeOf(p)
    \/ \E p \in HeapPtrs : CallCheckedPSizeOf(p)
    \/ \E p \in HeapPtrs : CallIsQualConst(p)
    \/ \E p \in HeapPtrs : CallIsQualVolatile(p)
    \/ \E p \in HeapPtrs : CallPrintType(p)
    \/ \E p \in HeapPtrs : CallPrintFuncSig("foo", p)

SpecParsed == InitParsed /\ [][NextParsed]_vars

\* the expression evaluator asks for the code generator class of the parsed
\* type, of the types derived from it and of implicitly declared functions
NextCodegen ==
    \/ \E p \in HeapPtrs : CallTypeOf(p)
    \/ CallGetImplicitFuncType
    \/ \E p \in HeapPtrs : CallPointerTo(p)
    \/ \E p \in HeapPtrs : CallArrayToPtr(p)
    \/ \E p \in HeapPtrs : CallPrintFuncSig("foo", p)

SpecCodegen == InitParsed /\ [][NextCodegen]_vars

\* the flag as the command line has set it, no type string allocated yet
InitChars ==
    /\ SignedChars \in {0, 1}
    /\ heap = StartMemory(<<>>)
    /\ allocated = 0
    /\ InitCommon

\* the caller's own storage: the live blocks
Blocks == {Ptr(HeapName(o)) : o \in Allocated(heap)}

\* string literals and character constants: char arrays are built, queried,
\* copied over one another and over the predefined int, duplicated and
\* released
NextChars ==
    \/ \E n \in Lengths : CallGetCharArrayType(n)
    \/ \E C \in Chars : CallSignExtendChar(C)
    \/ \E p \in TypeStrings : CallGetElementType(p)
    \/ CallTypeDup(Ptr("type_int"))
    \/ \E p \in Blocks : CallTypeFree(p)
    \/ \E Dest \in Blocks \cup {Ptr("type_int")}, Src \in Blocks \cup {Ptr("type_long")} : CallTypeCpy(Dest, Src)

SpecChars == InitChars /\ [][NextChars]_vars

-----------------------------------------------------------------------------
(* Claims *)

\* C1: Decode applied to the DECODE_SIZE slots written by Encode (slots, v)
\* returns exactly v, for every v in [0, 2^31) (and the wider values tried);
\* DecodePtr applied to the slots written by EncodePtr (slots, p) returns p.
CodecRoundTrip ==
    /\ slots # <<>> => Len(slots) = DECODE_SIZE
    /\ op \in {"Decode", "DecodePtr"} => decVal = encVal /\ ret = encVal
    /\ \A v \in CodecVals : Decode(Encode(v)) = v
    /\ \A P \in CodecPtrs : DecodePtr(EncodePtr(P)) = P

\* the largest value of [0, 2^31) has been encoded and decoded
CodecRoundTripWitness ==
    /\ op = "Decode"
    /\ encVal = UL(2147483647)
    /\ slots = <<65535, 65535, 32769, 32768, 32768>>
    /\ decVal = UL(2147483647)

\* the operations that produce a type string of their own
Constructors ==
    {"TypeDup", "PointerTo", "ArrayToPtr", "GetCharArrayType", "GetImplicitFuncType"}

\* the blocks the construction operations have produced so far: the
\* predefined ones and the block just returned
Produced ==
    {heap[n] : n \in DOMAIN Statics}
       \cup (IF op \in Constructors /\ fault = "none" THEN {Block(heap, ret.obj)} ELSE {})

\* every payload region of the type string T carries the marker bit
RECURSIVE PayloadMarked(_)
PayloadMarked(T) ==
    IF T = <<>> \/ T[1] = T_END THEN TRUE
    ELSE IF HasEncode(T)
    THEN /\ Len(T) > DECODE_SIZE
         /\ \A i \in 2..(DECODE_SIZE + 1) :
               BitAnd(T[i], ENCODE_MARK) = ENCODE_MARK /\ T[i] # T_END
         /\ PayloadMarked(Skip(T, DECODE_SIZE + 1))
    ELSE PayloadMarked(Skip(T, 1))

\* C2: over any sequence of construction operations every payload slot
\* carries the marker bit 0x8000 and so differs from T_END; every type
\* string produced is terminated by the sentinel, which is the last token of
\* its block, and TypeLen and TypeCpy run through the payload up to it;
\* TypeLen (GetCharArrayType (n)) = DECODE_SIZE + 2 for every n, and
\* TypeLen (TypeDup (T)) = TypeLen (T) with the sentinel at the same index.
SentinelTerminated ==
    /\ \A B \in Produced :
          /\ PayloadMarked(B)
          /\ TypeLen(B) = Len(B) - 1
          /\ B[Len(B)] = T_END
          /\ TypeCpy(B) = B
    /\ \A p \in Sources :
          LET T == At(heap, p)
          IN  /\ PayloadMarked(SubSeq(T, 1, TypeLen(T) + 1))
              /\ TypeCpy(T) = SubSeq(T, 1, TypeLen(T) + 1)
    /\ (op = "TypeCpy" /\ arg.Dest.obj # arg.Src.obj) =>
          LET T == At(heap, arg.Src)
          IN  SubSeq(At(heap, ret), 1, TypeLen(T) + 1) = SubSeq(T, 1, TypeLen(T) + 1)
    /\ op = "GetCharArrayType" => TypeLen(At(heap, ret)) = DECODE_SIZE + 2
    /\ op = "TypeLen" =>
          /\ At(heap, arg)[ret + 1] = T_END
          /\ \A i \in 1..ret : At(heap, arg)[i] # T_END
    /\ op = "TypeDup" =>
          /\ TypeLen(At(heap, ret)) = TypeLen(At(heap, arg))
          /\ At(heap, ret)[TypeLen(At(heap, arg)) + 1] = T_END
          /\ Len(Block(heap, ret.obj)) = TypeLen(At(heap, arg)) + 1

\* a char array of length 0 (all payload bits clear) was built and duplicated
SentinelTerminatedWitness ==
    /\ op = "TypeDup"
    /\ IsTypeArray(At(heap, arg))
    /\ BvIsZero(Decode(Skip(At(heap, arg), 1)))
    /\ TypeLen(At(heap, ret)) = DECODE_SIZE + 2
    /\ ret # arg

\* C3: PointerTo (T) is T_PTR followed by all tokens of T and T's sentinel:
\* TypeLen (PointerTo (T)) = TypeLen (T) + 1, and Indirect (PointerTo (T)) is
\* token for token equal to T.
PointerToIndirect ==
    /\ \A p \in Sources :
          LET T == At(heap, p)
              P == PointerTo(T)
          IN  /\ P = <<T_PTR>> \o SubSeq(T, 1, TypeLen(T)) \o <<T_END>>
              /\ TypeLen(P) = TypeLen(T) + 1
              /\ ~Indirect(P).fault
              /\ Skip(P, Indirect(P).val) = SubSeq(T, 1, TypeLen(T) + 1)
    /\ op = "PointerTo" =>
          LET T == At(heap, arg)
              P == At(heap, ret)
          IN  /\ ret.off = 0
              /\ P[1] = T_PTR
              /\ Len(P) = TypeLen(T) + 2
              /\ \A i \in 1..(TypeLen(T) + 1) : P[i + 1] = T[i]
              /\ TypeLen(P) = TypeLen(T) + 1
    /\ (op = "Indirect" /\ fault = "none" /\ At(heap, arg)[1] = T_PTR) =>
          /\ ret = [obj |-> arg.obj, off |-> arg.off + 1]
          /\ At(heap, arg) = <<T_PTR>> \o At(heap, ret)

\* Indirect has been applied to a block PointerTo made from another pointer
PointerToIndirectWitness ==
    /\ op = "Indirect"
    /\ fault = "none"
    /\ arg.off = 0
    /\ \E o \in Allocated(heap) :
          /\ HeapName(o) # arg.obj
          /\ heap[HeapName(o)][1] = T_PTR
          /\ Block(heap, arg.obj) = PointerTo(heap[HeapName(o)])
          /\ At(heap, ret) = heap[HeapName(o)]

\* what C7 says SignExtendChar (C) returns, in integers
ExpectedSignExtend(C) ==
    IF SignedChars # 0 /\ (C \div 128) % 2 = 1 THEN (C % 256) - 256 ELSE C % 256

\* the states of C7
SignedCharsDecidesInv ==
    /\ op = "GetCharArrayType" =>
          LET T == Block(heap, ret.obj)
          IN  /\ ret.off = 0
              /\ Len(T) = DECODE_SIZE + 3
              /\ T[1] = T_ARRAY
              /\ Decode(Skip(T, 1)) = BvCast(arg, LONG_BITS)
              /\ \A i \in 2..(DECODE_SIZE + 1) : T[i] >= ENCODE_MARK
              /\ T[DECODE_SIZE + 2] = (IF SignedChars = 0 THEN T_UCHAR ELSE T_SCHAR)
              /\ T[DECODE_SIZE + 3] = T_END
    /\ op = "SignExtendChar" =>
          /\ ret = ExpectedSignExtend(arg)
          /\ ret < 0 <=> (SignedChars # 0 /\ (arg \div 128) % 2 = 1)
          /\ ret >= 0 => ret \in 0..255

\* C7: the SignedChars flag alone decides char signedness and no operation
\* writes it: GetCharArrayType (n) is [T_ARRAY][Encode (n)][tag][T_END] with
\* tag T_UCHAR when the flag is unset and T_SCHAR when it is set;
\* SignExtendChar (C) is C | ~0xFF (negative) only when the flag is set and
\* bit 7 of C is set, and C & 0xFF (in 0..255) otherwise.
SignedCharsDecides == []SignedCharsDecidesInv /\ [][SignedChars' = SignedChars]_vars

\* under signed chars, a char with bit 7 set was extended to a negative value
\* and a char array got the signed element tag
SignedCharsDecidesWitness ==
    /\ SignedChars = 1
    /\ op = "SignExtendChar"
    /\ arg = 384
    /\ ret = -128
    /\ \E o \in Allocated(heap) : heap[HeapName(o)] = <<T_ARRAY>> \o Encode(UL(5)) \o <<T_SCHAR, T_END>>

\* T is the type string of an implicitly declared function
IsImplicitFunc(T) ==
    /\ T[1] = T_FUNC
    /\ DecodePtr(Skip(T, 1)) \in DOMAIN FuncDescs
    /\ BitAnd(FuncDescs[DecodePtr(Skip(T, 1))].Flags, FD_IMPLICIT) # 0

\* what GetImplicitFuncType returned: [T_FUNC][handle][T_INT][T_END], the
\* handle that of a descriptor flagged FD_IMPLICIT | FD_EMPTY | FD_VARIADIC
ImplicitFuncShape ==
    op = "GetImplicitFuncType" =>
       LET T == Block(heap, ret.obj)
           F == DecodePtr(Skip(T, 1))
       IN  /\ ret.off = 0
           /\ T = <<T_FUNC>> \o EncodePtr(F) \o <<T_INT, T_END>>
           /\ F \in DOMAIN FuncDescs
           /\ F \notin DOMAIN DeclaredFuncDescs
           /\ FuncDescs[F].Flags = FD_IMPLICIT + FD_EMPTY + FD_VARIADIC
           /\ FuncDescs[F].ParamCount = 0

\* C9 as the spec states it: GetImplicitFuncType () yields
\* [T_FUNC][handle of a fresh descriptor flagged FD_IMPLICIT | FD_EMPTY |
\* FD_VARIADIC][T_INT][T_END], and PrintFuncSig renders it under the name
\* "foo" as  function returning int foo (...)
ImplicitFuncSigAsClaimed ==
    /\ ImplicitFuncShape
    /\ (op = "PrintFuncSig" /\ fault = "none" /\ IsImplicitFunc(At(heap, arg))) =>
          ret = "function returning int foo (...)"

\* C9, amended: the type string is as stated and its descriptor is fresh;
\* PrintFuncSig renders it under the name "foo" as  int foo ()  : the return
\* type alone, the name, and an empty parameter list without a variadic marker
ImplicitFuncSig ==
    /\ [](/\ ImplicitFuncShape
          /\ (op = "PrintFuncSig" /\ fault = "none" /\ IsImplicitFunc(At(heap, arg))) =>
                ret = "int foo ()")
    /\ [][op' = "GetImplicitFuncType" =>
            /\ DecodePtr(Skip(Block(heap', ret'.obj), 1)) \notin DOMAIN FuncDescs
            /\ DOMAIN FuncDescs' =
                  DOMAIN FuncDescs \cup {DecodePtr(Skip(Block(heap', ret'.obj), 1))}]_vars

\* an implicit function type was built and rendered under the name "foo"
ImplicitFuncSigWitness ==
    /\ op = "PrintFuncSig"
    /\ fault = "none"
    /\ arg.off = 0
    /\ Block(heap, arg.obj) = ImplicitFuncString(NewDescAddrs[1])
    /\ BitAnd(FuncDescs[NewDescAddrs[1]].Flags, FD_VARIADIC) # 0
    /\ ret = "int foo ()"

\* C4 as the spec states it: for an array T of n elements of type E (E
\* starts DECODE_SIZE + 1 tokens after the array tag) SizeOf (T) is
\* n * SizeOf (E), recursively; for an array whose element count is the
\* unspecified marker, SizeOf (T) is 0.
ArraySizeAsClaimed ==
    (op = "SizeOf" /\ fault = "none" /\ IsTypeArray(At(heap, arg))) =>
       LET T == At(heap, arg)
           n == Decode(Skip(T, 1))
           E == SizeOf(Skip(T, DECODE_SIZE + 1))
       IN  IF n = UNSPECIFIED THEN ret = U(0)
           ELSE ret = BvCast(BvMul(n, BvCast(E.val, LONG_BITS)), INT_BITS)

\* the kinds of type C5 lists as having no size: void, an array of
\* unspecified or zero length, an array of void
ListedAsUnknown(T) ==
    \/ UnqualifiedType(T[1]) = T_VOID
    \/ /\ IsTypeArray(T)
       /\ \/ Decode(Skip(T, 1)) \in {UNSPECIFIED, UL(0)}
          \/ UnqualifiedType(T[DECODE_SIZE + 2]) = T_VOID

\* C5 as the spec states it: CheckedSizeOf and CheckedPSizeOf never return
\* 0; when SizeOf (PSizeOf) is non-zero they return it and report nothing;
\* when it is zero (void, unspecified-length or zero-length array, array of
\* void, pointer to void) they report "Size of data type is unknown" exactly
\* once and return SIZEOF_CHAR, without aborting.
CheckedSizesAsClaimed ==
    [][(\/ op' = "CheckedSizeOf"
        \/ op' = "CheckedPSizeOf" /\ GetClass(At(heap, arg')) = T_CLASS_PTR) =>
       LET T    == IF op' = "CheckedSizeOf" THEN At(heap, arg')
                   ELSE Skip(At(heap, arg'), Indirect(At(heap, arg')).val)
           Size == SizeOf(T)
       IN  ~Size.fault =>
              /\ fault' = "none"
              /\ ret' # U(0)
              /\ ListedAsUnknown(T) => BvIsZero(Size.val)
              /\ IF BvIsZero(Size.val)
                 THEN /\ ret' = U(SIZEOF_CHAR)
                      /\ Errors' = Append(Errors, "Size of data type is unknown")
                 ELSE /\ ret' = Size.val
                      /\ Errors' = Errors]_vars

\* the tag C6 says carries the qualifiers of T
QualifiedTag(T) == IF IsTypeArray(T) THEN T[DECODE_SIZE + 2] ELSE T[1]

\* C6 as the spec states it: IsQualConst (T) is true exactly when the const
\* bit is set, and IsQualVolatile (T) exactly when the volatile bit is set,
\* on T's leading tag or, for an array, on the leading tag of its element
\* type.
QualifiersAsClaimed ==
    /\ op = "IsQualConst" =>
          (ret <=> BitAnd(QualifiedTag(At(heap, arg)), T_QUAL_CONST) # 0)
    /\ op = "IsQualVolatile" =>
          (ret <=> BitAnd(QualifiedTag(At(heap, arg)), T_QUAL_VOLATILE) # 0)

\* C8: for an array T with element type E, ArrayToPtr (T) is token for token
\* PointerTo (E), E beginning DECODE_SIZE + 1 tokens into T, so its SizeOf is
\* SIZEOF_PTR whatever the element count; for  int a[5]  it prints as "int*".
ArrayDecay ==
    /\ \A p \in HeapPtrs :
          LET T == At(heap, p)
              E == Skip(T, DECODE_SIZE + 1)
          IN  IsTypeArray(T) =>
                 /\ ~ArrayToPtr(T).fault
                 /\ ArrayToPtr(T).val = PointerTo(E)
                 /\ ArrayToPtr(T).val = <<T_PTR>> \o SubSeq(E, 1, TypeLen(E) + 1)
                 /\ SizeOf(ArrayToPtr(T).val) = Ok(U(SIZEOF_PTR))
    /\ (op = "ArrayToPtr" /\ fault = "none") =>
          LET T == At(heap, arg)
              P == Block(heap, ret.obj)
          IN  /\ ret.off = 0
              /\ P[1] = T_PTR
              /\ Skip(P, 1) = Skip(T, DECODE_SIZE + 1)
              /\ SizeOf(P) = Ok(U(SIZEOF_PTR))
              /\ T = ArrayOf(UL(5), <<T_INT, T_END>>) => PrintType(P) = "int*"

\* the type of  int a[5]  has decayed
ArrayDecayWitness ==
    /\ op = "ArrayToPtr"
    /\ fault = "none"
    /\ At(heap, arg) = ArrayOf(UL(5), <<T_INT, T_END>>)
    /\ At(heap, ret) = <<T_PTR, T_INT, T_END>>
    /\ PrintType(At(heap, ret)) = "int*"

\* the tags SizeOf has a case for
RecognisedTags ==
    {T_VOID, T_SCHAR, T_UCHAR, T_SHORT, T_USHORT, T_INT, T_UINT, T_PTR, T_FUNC,
     T_LONG, T_ULONG, T_LONGLONG, T_ULONGLONG, T_ENUM, T_FLOAT, T_DOUBLE,
     T_STRUCT, T_UNION, T_ARRAY}

\* the tag SizeOf ends on: that of the innermost element through the arrays
RECURSIVE BaseTag(_)
BaseTag(T) ==
    IF UnqualifiedType(T[1]) = T_ARRAY THEN BaseTag(Skip(T, DECODE_SIZE + 1))
    ELSE UnqualifiedType(T[1])

\* the leading tag is a pointer or an array
IsPtrClass(T) == BitAnd(T[1], T_MASK_CLASS) = T_CLASS_PTR

\* the number of leading pointer tags GetFuncDesc and GetFuncReturn skip
SkippedPtr(T) == IF BitClear(T[1], T_MASK_QUAL) = T_PTR THEN 1 ELSE 0

\* what C10 says of all operations but PSizeOf
FaultsOfTheOthers ==
    LET T == At(heap, arg)
    IN  /\ op = "Indirect" =>
              /\ fault # "none" <=> ~IsPtrClass(T)
              /\ fault # "none" => fault = "Indirect"
        /\ op \in {"ArrayToPtr", "GetElementCount", "GetElementType"} =>
              /\ fault # "none" <=> BitAnd(T[1], T_MASK_TYPE) # T_TYPE_ARRAY
              /\ fault # "none" => fault = op
        /\ op \in {"GetFuncDesc", "GetFuncReturn"} =>
              /\ fault # "none" <=> T[SkippedPtr(T) + 1] # T_FUNC
              /\ fault # "none" => fault = op
              /\ (fault = "none" /\ op = "GetFuncDesc") =>
                    ret = DecodePtr(Skip(T, SkippedPtr(T) + 1))
              /\ (fault = "none" /\ op = "GetFuncReturn") =>
                    ret = [obj |-> arg.obj,
                           off |-> arg.off + SkippedPtr(T) + 1 + DECODE_SIZE]
        /\ op = "SizeOf" =>
              /\ fault # "none" <=> BaseTag(T) \notin RecognisedTags
              /\ fault # "none" => fault = "SizeOf"
        /\ \A p \in HeapPtrs :
              LET F == At(heap, p)
                  P == PointerTo(F)
              IN  F[1] = T_FUNC =>
                     /\ GetFuncDesc(P) = GetFuncDesc(F)
                     /\ ~GetFuncReturn(P).fault /\ ~GetFuncReturn(F).fault
                     /\ Skip(P, GetFuncReturn(P).val) = Skip(F, GetFuncReturn(F).val)
        /\ (fault = "none" /\ op \in {"Indirect", "GetElementType"}) =>
              ret = [obj |-> arg.obj, off |-> arg.off + Indirect(T).val]

\* C10 as the spec states it: Indirect and PSizeOf fault exactly when the
\* class of the leading tag is not the pointer class; ArrayToPtr,
\* GetElementCount and GetElementType fault exactly when the leading tag is
\* not an array; GetFuncDesc and GetFuncReturn skip at most one (possibly
\* qualified) pointer tag and fault unless the tag then found is T_FUNC, and
\* agree on F and PointerTo (F); SizeOf faults on an unrecognised base tag;
\* an operation that does not fault returns normally.
FaultsAsClaimed ==
    /\ FaultsOfTheOthers
    /\ op = "PSizeOf" => (fault # "none" <=> ~IsPtrClass(At(heap, arg)))

\* C10, amended: as stated, but PSizeOf faults exactly when the class of the
\* leading tag is not the pointer class (its own CHECK) or the base tag of
\* the type pointed to is unrecognised (the Internal call of SizeOf).
FaultsExactly ==
    /\ FaultsOfTheOthers
    /\ op = "PSizeOf" =>
          LET T == At(heap, arg)
          IN  /\ fault = "PSizeOf" <=> ~IsPtrClass(T)
              /\ fault = "SizeOf" <=>
                    /\ IsPtrClass(T)
                    /\ BaseTag(Skip(T, Indirect(T).val)) \notin RecognisedTags
              /\ fault \in {"none", "PSizeOf", "SizeOf"}
              /\ fault = "none" => ret = SizeOf(Skip(T, Indirect(T).val)).val

\* PSizeOf has aborted on a pointer to a type with an unrecognised tag
FaultsExactlyWitness ==
    /\ op = "PSizeOf"
    /\ fault = "SizeOf"
    /\ At(heap, arg)[1] = T_PTR
    /\ At(heap, arg)[2] = T_BAD

\* the tags TypeOf has a case for
ClassifiedTags ==
    {T_SCHAR, T_UCHAR, T_SHORT, T_USHORT, T_INT, T_UINT, T_ENUM, T_LONG, T_ULONG,
     T_FLOAT, T_DOUBLE, T_PTR, T_ARRAY, T_FUNC, T_STRUCT, T_UNION}

\* C11: TypeOf (T) never aborts and depends only on the unqualified leading
\* tag of T (and, for a function, on its descriptor): pointer, array, struct
\* and union tags yield CF_INT | CF_UNSIGNED; a function tag yields
\* CF_FIXARGC when its descriptor is not variadic and 0 when it is, so 0 for
\* the implicit function type; a tag with no classification (void) appends
\* the one error "Illegal type" and yields CF_INT; every other call reports
\* nothing.
TypeOfClassifies ==
    [][op' = "TypeOf" =>
          LET T == At(heap, arg')
              t == UnqualifiedType(T[1])
          IN  /\ fault' = "none"
              /\ heap' = heap /\ FuncDescs' = FuncDescs
              /\ t \in {T_PTR, T_ARRAY, T_STRUCT, T_UNION} =>
                    ret' = CF_INT + CF_UNSIGNED
              /\ t = T_FUNC =>
                    /\ IsVariadicFunc(T, FuncDescs).val => ret' = 0
                    /\ ~IsVariadicFunc(T, FuncDescs).val => ret' = CF_FIXARGC
              /\ IsImplicitFunc(T) => ret' = 0
              /\ t \in ClassifiedTags => Errors' = Errors
              /\ t \notin ClassifiedTags =>
                    /\ ret' = CF_INT
                    /\ Errors' = Append(Errors, "Illegal type")
              /\ \A Other \in ParsedTypes :
                    (UnqualifiedType(Other[1]) = t /\ t # T_FUNC) =>
                        TypeOf(Other, FuncDescs).val = ret'
    ]_vars

\* TypeOf has classified void: one error, the default class
TypeOfClassifiesWitness ==
    /\ op = "TypeOf"
    /\ fault = "none"
    /\ At(heap, arg) = <<T_VOID, T_END>>
    /\ ret = CF_INT
    /\ Errors = <<"Illegal type">>

\* the names of the live heap blocks
Live(h) == {HeapName(o) : o \in Allocated(h)}

\* C12, as stated: ArrayToPtr (T) returns a type string inside T's storage
\* and allocates nothing, so the live heap blocks are those before the call.
ArrayToPtrAliases ==
    [][(op' = "ArrayToPtr" /\ fault' = "none") =>
          /\ heap' = heap
          /\ ret'.obj = arg'.obj
    ]_vars

\* C12, amended: every ArrayToPtr (T) that returns has allocated one new
\* block, which holds the result from its first token on; the blocks live
\* before the call, T's among them, are unchanged and the result lies in
\* none of them, so n calls add n blocks to the live ones.
ArrayToPtrAllocates ==
    [][(op' = "ArrayToPtr" /\ fault' = "none") =>
          /\ ret'.obj \in Live(heap') \ Live(heap)
          /\ ret'.off = 0
          /\ Live(heap') = Live(heap) \cup {ret'.obj}
          /\ Cardinality(Live(heap')) = Cardinality(Live(heap)) + 1
          /\ \A o \in Allocated(heap) : heap'[HeapName(o)] = heap[HeapName(o)]
          /\ ret'.obj # arg'.obj
          /\ Block(heap', ret'.obj) = ArrayToPtr(At(heap, arg')).val
    ]_vars

\* ArrayToPtr has returned a block of its own next to the array's
ArrayToPtrAllocatesWitness ==
    /\ op = "ArrayToPtr"
    /\ fault = "none"
    /\ IsTypeArray(At(heap, arg))
    /\ arg.obj = HeapName(1)
    /\ ret = Ptr(HeapName(2))
    /\ Allocated(heap) = {1, 2}

\* the name PrintType has for a base type
BaseTypeName(T) ==
    CASE GetType(T) = T_TYPE_CHAR -> "char"
      [] GetType(T) = T_TYPE_SHORT -> "short"
      [] GetType(T) = T_TYPE_INT -> "int"
      [] GetType(T) = T_TYPE_LONG -> "long"
      [] GetType(T) = T_TYPE_LONGLONG -> "long long"
      [] GetType(T) = T_TYPE_FLOAT -> "float"
      [] GetType(T) = T_TYPE_DOUBLE -> "double"
      [] GetType(T) = T_TYPE_VOID -> "void"
      [] GetType(T) = T_TYPE_STRUCT ->
            "struct " \o SymEntries[DecodePtr(Skip(T, 1))].Name
      [] GetType(T) = T_TYPE_UNION ->
            "union " \o SymEntries[DecodePtr(Skip(T, 1))].Name
      [] OTHER -> "unknown type: " \o Hex4(BitAnd(T[1], T_MASK_TYPE + T_MASK_CLASS))

\* the rendering of T the specification describes: qualifiers, then the
\* sign unless the base type is int or long, then the base type name; an
\* array as its element type and "[n]", "[]" for the unspecified count; a
\* pointer as its pointee and "*"
RECURSIVE Rendered(_)
Rendered(T) ==
    LET quals == (IF BitAnd(T[1], T_QUAL_CONST) # 0 THEN "const " ELSE "")
                 \o (IF BitAnd(T[1], T_QUAL_VOLATILE) # 0 THEN "volatile " ELSE "")
        sign  == IF GetType(T) \in {T_TYPE_INT, T_TYPE_LONG} THEN ""
                 ELSE IF BitAnd(T[1], T_MASK_SIGN) = T_SIGN_SIGNED THEN "signed "
                 ELSE IF BitAnd(T[1], T_MASK_SIGN) = T_SIGN_UNSIGNED THEN "unsigned "
                 ELSE ""
        Count == Decode(Skip(T, 1))
    IN  CASE GetType(T) = T_TYPE_ARRAY ->
                quals \o Rendered(Skip(T, DECODE_SIZE + 1))
                      \o (IF Count = UNSPECIFIED THEN "[]"
                          ELSE "[" \o BvDecimal(Count) \o "]")
          [] GetType(T) = T_TYPE_PTR -> quals \o Rendered(Skip(T, 1)) \o "*"
          [] GetType(T) = T_TYPE_FUNC ->
                quals \o "function returning " \o Rendered(Skip(T, DECODE_SIZE + 1))
          [] OTHER -> quals \o sign \o BaseTypeName(T)

\* C13: PrintType writes, for each tag, the qualifiers, then the sign unless
\* the base type is int or long, then the base type name; an array is its
\* complete element type followed by "[n]" for the element count n, or "[]"
\* when the count is unspecified; a pointer is its complete pointee followed
\* by "*"; nothing is written twice or behind the trailing "*" or "[n]".
PrintTypeAsClaimed ==
    (op = "PrintType" /\ fault = "none") => ret = Rendered(At(heap, arg))

=============================================================================
